---- MODULE Spec2Model ----
(***************************************************************************)
(* Multi-evaluator orchestration and aggregation of bot_ebooks.            *)
(*                                                                         *)
(* Scores are Decimals with two places in the source; here every score is  *)
(* an integer number of hundredths (7.50 is 750).  Persona weights are in   *)
(* hundredths (0.20 is 20) and strictness in tenths (0.8 is 8).             *)
(***************************************************************************)
EXTENDS Integers, Sequences, FiniteSets, TLC

VARIABLES
    provider_names,   \* MultiLLMJudge.provider_names (set by __init__)
    persona_ids,      \* MultiLLMJudge.persona_ids (set by __init__)
    ebook_status,     \* committed Ebook.status of the ebook
    evaluation,       \* committed Evaluation row of the ebook
    ev,               \* ev[r]: the Evaluation object held by run r's session
    pc,               \* pc[r]: position of run r in run_evaluation/evaluate_ebook
    results,          \* results[r]: outcome of each task handed to gather, in task order
    agg_calls,        \* agg_calls[r]: calls of aggregate_scores made by run r
    completion,       \* completion[r]: the task indexes of run r in the order the tasks ended
    settings,         \* settings.evaluation_providers and settings.evaluation_personas, split
    registry,         \* the PERSONAS dict get_persona reads
    agg_input,        \* individual_scores handed to a direct call of aggregate_scores
    agg_method,       \* method handed to that call
    agg_result,       \* what that call gave
    evaluation_rows,  \* number of rows of the evaluations table with the ebook's id
    process_pc        \* process_pc[r]: position of the process_pending_evaluations
                      \* call whose run_evaluation is run r

\* what no step of an evaluation run changes
fixed == <<settings, registry, agg_input, agg_method, agg_result>>

vars == <<provider_names, persona_ids, ebook_status, evaluation, ev,
          pc, results, agg_calls, completion, fixed, evaluation_rows, process_pc>>

(***************************************************************************)
(* Bounds of the model.                                                    *)
(***************************************************************************)
MaxRuns == 3          \* run_evaluation invocations for the ebook

Runs == 1..MaxRuns

None == -1            \* a NULL numeric column
NoText == "None"      \* a NULL text column

(***************************************************************************)
(* Persona registry (personas.py).                                         *)
(***************************************************************************)
\* a rigorist whose weights sum to 1.1
RIGORIST_overweight ==
    [name |-> "The Rigorist", novelty |-> 20, structure |-> 20,
     thoroughness |-> 40, clarity |-> 30, strictness |-> 8]

RIGORIST ==
    [name |-> "The Rigorist", novelty |-> 20, structure |-> 20,
     thoroughness |-> 40, clarity |-> 20, strictness |-> 8]
SYNTHESIZER ==
    [name |-> "The Synthesizer", novelty |-> 40, structure |-> 20,
     thoroughness |-> 20, clarity |-> 20, strictness |-> 5]
STYLIST ==
    [name |-> "The Stylist", novelty |-> 20, structure |-> 25,
     thoroughness |-> 15, clarity |-> 40, strictness |-> 6]
CONTRARIAN ==
    [name |-> "The Contrarian", novelty |-> 45, structure |-> 15,
     thoroughness |-> 25, clarity |-> 15, strictness |-> 7]
PEDAGOGUE ==
    [name |-> "The Pedagogue", novelty |-> 15, structure |-> 30,
     thoroughness |-> 25, clarity |-> 30, strictness |-> 5]

PERSONAS ==
    [id \in {"rigorist", "synthesizer", "stylist", "contrarian", "pedagogue"} |->
        CASE id = "rigorist" -> RIGORIST
          [] id = "synthesizer" -> SYNTHESIZER
          [] id = "stylist" -> STYLIST
          [] id = "contrarian" -> CONTRARIAN
          [] id = "pedagogue" -> PEDAGOGUE]

\* get_persona raises ValueError for an id that is not registered.
get_persona_raises(persona_id) == persona_id \notin DOMAIN registry
get_persona(persona_id) == registry[persona_id]

(***************************************************************************)
(* Provider registry (providers.py).                                       *)
(***************************************************************************)
PROVIDERS == {"claude", "openai", "gemini"}

\* get_provider raises ValueError for a name that is not registered.
get_provider_raises(provider_name) == provider_name \notin PROVIDERS

\* get_available_providers: the registered providers that have an API key,
\* in the fixed order claude, openai, gemini.
get_available_providers(keys) ==
    SelectSeq(<<"claude", "openai", "gemini">>, LAMBDA p : p \in keys)

(***************************************************************************)
(* Sequence helpers.                                                       *)
(***************************************************************************)
RECURSIVE SumSeq(_)
SumSeq(s) == IF s = <<>> THEN 0 ELSE Head(s) + SumSeq(Tail(s))

Range(s) == {s[i] : i \in DOMAIN s}

\* the first value instead of the largest
MaxOfFirst(s) == s[1]
MaxOf(s) == CHOOSE m \in Range(s) : \A x \in Range(s) : x <= m
MinOf(s) == CHOOSE m \in Range(s) : \A x \in Range(s) : m <= x

Sorted(s) == SortSeq(s, LAMBDA a, b : a < b)

MapSeq(s, Op(_)) == [i \in DOMAIN s |-> Op(s[i])]

\* num/den rounded to the nearest integer, ties to the even one
\* (Decimal.quantize's ROUND_HALF_EVEN and Python's round()); num >= 0, den > 0.
RoundHalfEven(num, den) ==
    LET q == num \div den
        r == num % den
    IN  IF 2 * r < den THEN q
        ELSE IF 2 * r > den THEN q + 1
        ELSE IF q % 2 = 0 THEN q ELSE q + 1

(***************************************************************************)
(* Scoring provider responses.  A response is what provider.evaluate did:  *)
(* it raised, or it returned text that holds no JSON object, an invalid    *)
(* one, or an object whose entry for a dimension may be absent, may lack   *)
(* its score, may hold a score float() rejects, or a number.               *)
(***************************************************************************)
Dims == <<"novelty", "structure", "thoroughness", "clarity">>

DimEntry(score) ==
    [present |-> TRUE, has_score |-> TRUE, numeric |-> TRUE, score |-> score,
     feedback |-> "fb"]

JsonResponse(n, s, t, c) ==
    [raises |-> FALSE, json |-> "ok",
     data |-> [d \in Range(Dims) |->
                 CASE d = "novelty" -> n
                   [] d = "structure" -> s
                   [] d = "thoroughness" -> t
                   [] d = "clarity" -> c]]

ScoredResponse(n, s, t, c) ==
    JsonResponse(DimEntry(n), DimEntry(s), DimEntry(t), DimEntry(c))

RespRaises == [ScoredResponse(500, 500, 500, 500) EXCEPT !.raises = TRUE]
RespNoJson == [ScoredResponse(500, 500, 500, 500) EXCEPT !.json = "none"]
RespInvalidJson == [ScoredResponse(500, 500, 500, 500) EXCEPT !.json = "invalid"]
RespMissingDim ==
    JsonResponse(DimEntry(500), [DimEntry(500) EXCEPT !.present = FALSE],
                 DimEntry(500), DimEntry(500))
RespMissingScore ==
    JsonResponse(DimEntry(500), DimEntry(500),
                 [DimEntry(500) EXCEPT !.has_score = FALSE], DimEntry(500))
RespNotANumber ==
    JsonResponse(DimEntry(500), DimEntry(500), DimEntry(500),
                 [DimEntry(500) EXCEPT !.numeric = FALSE])
RespTooHigh == ScoredResponse(1050, 500, 500, 500)
RespTooLow == ScoredResponse(500, 500, 500, 50)
RespNoFeedback ==
    JsonResponse([DimEntry(700) EXCEPT !.feedback = ""], DimEntry(700),
                 DimEntry(700), DimEntry(700))
RespLow == ScoredResponse(200, 400, 400, 200)
RespHigh == ScoredResponse(900, 800, 700, 600)
RespEdge == ScoredResponse(100, 1000, 100, 1000)

FailingResponses ==
    {RespRaises, RespNoJson, RespInvalidJson, RespMissingDim, RespMissingScore,
     RespNotANumber, RespTooHigh, RespTooLow}
ValidResponses == {RespLow, RespHigh, RespEdge, RespNoFeedback}
Responses == FailingResponses \cup ValidResponses

\* The responses the scoring providers give in the orchestrator's runs.
RunResponses == {RespRaises, RespLow}

(***************************************************************************)
(* LLMProvider.parse_evaluation_response (providers.py).                   *)
(***************************************************************************)
\* The loop body without its range validation (lines 74-77 left out).
DimErrorNoRange(dim, entry) ==
    IF ~entry.present THEN "Missing dimension in response: " \o dim
    ELSE IF ~entry.has_score THEN "Missing score for dimension: " \o dim
    ELSE IF ~entry.numeric THEN "could not convert to float: " \o dim
    ELSE ""

\* The ValueError/TypeError the loop body raises for one dimension, "" if none.
DimError(dim, entry) ==
    IF ~entry.present THEN "Missing dimension in response: " \o dim
    ELSE IF ~entry.has_score THEN "Missing score for dimension: " \o dim
    ELSE IF ~entry.numeric THEN "could not convert to float: " \o dim
    ELSE IF ~(100 <= entry.score /\ entry.score <= 1000)
         THEN "Score for " \o dim \o " out of range"
    ELSE ""

RECURSIVE FirstDimError(_, _)
FirstDimError(data, dims) ==
    IF dims = <<>> THEN ""
    ELSE IF DimError(Head(dims), data[Head(dims)]) # ""
         THEN DimError(Head(dims), data[Head(dims)])
    ELSE FirstDimError(data, Tail(dims))

\* "" when the response parses, else the message of the ValueError raised.
parse_evaluation_response(response) ==
    IF response.json = "none" THEN "No JSON found in LLM response"
    ELSE IF response.json = "invalid" THEN "Invalid JSON in LLM response"
    ELSE FirstDimError(response.data, Dims)

(***************************************************************************)
(* compute_persona_weighted_score (multi_judge.py): the weighted sum,      *)
(* quantized to two places.                                                *)
(***************************************************************************)
\* a weighted sum that takes the weights for percentages
compute_persona_weighted_score_percent(persona, novelty, structure, thoroughness, clarity) ==
    novelty * persona.novelty + structure * persona.structure
    + thoroughness * persona.thoroughness + clarity * persona.clarity

compute_persona_weighted_score(persona, novelty, structure, thoroughness, clarity) ==
    RoundHalfEven(novelty * persona.novelty + structure * persona.structure
                  + thoroughness * persona.thoroughness + clarity * persona.clarity,
                  100)

(***************************************************************************)
(* MultiLLMJudge._run_single_evaluation.  The outcome of one task: it      *)
(* raised (state "raised") or returned the pair (indiv_eval, indiv_score), *)
(* held here as one record.  called tells whether provider.evaluate ran.   *)
(***************************************************************************)
PendingTask(provider_name, persona_id) ==
    [state |-> "pending", called |-> FALSE, provider |-> provider_name,
     persona_id |-> persona_id, success |-> FALSE,
     novelty_score |-> 0, structure_score |-> 0, thoroughness_score |-> 0,
     clarity_score |-> 0, weighted_score |-> 0,
     feedback |-> [d \in Range(Dims) |-> ""], error_message |-> NoText]

_run_single_evaluation(provider_name, persona_id, response) ==
    LET task == PendingTask(provider_name, persona_id)
        error == IF response.raises THEN "provider call failed"
                 ELSE parse_evaluation_response(response)
        persona == get_persona(persona_id)
        data == response.data
    IN  IF get_persona_raises(persona_id)
        THEN [task EXCEPT !.state = "raised",
                          !.error_message = "Unknown persona: " \o persona_id]
        ELSE IF get_provider_raises(provider_name)
        THEN [task EXCEPT !.state = "raised",
                          !.error_message = "Unknown provider: " \o provider_name]
        ELSE IF error # ""
        THEN [task EXCEPT !.state = "returned", !.called = TRUE,
                          !.success = FALSE, !.error_message = error]
        ELSE [task EXCEPT !.state = "returned", !.called = TRUE, !.success = TRUE,
                          !.novelty_score = data["novelty"].score,
                          !.structure_score = data["structure"].score,
                          !.thoroughness_score = data["thoroughness"].score,
                          !.clarity_score = data["clarity"].score,
                          !.weighted_score =
                              compute_persona_weighted_score(persona,
                                  data["novelty"].score, data["structure"].score,
                                  data["thoroughness"].score, data["clarity"].score),
                          !.feedback = [d \in Range(Dims) |-> data[d].feedback]]

(***************************************************************************)
(* Aggregation (aggregation.py).  An aggregate is kept as the exact        *)
(* fraction <<num, den>> until aggregate_scores rounds it to two places.   *)
(***************************************************************************)
AggregationMethods == {"mean", "median", "trimmed_mean", "weighted_mean"}

\* statistics.mean
Mean(values) == <<SumSeq(values), Len(values)>>

\* a median that takes the upper of the two middle values
MedianUpperMiddle(values) == <<Sorted(values)[(Len(values) \div 2) + 1], 1>>

\* statistics.median: the middle value, or the mean of the two middle values
Median(values) ==
    LET sorted_values == Sorted(values)
        n == Len(values)
    IN  IF n % 2 = 1 THEN <<sorted_values[(n + 1) \div 2], 1>>
        ELSE <<sorted_values[n \div 2] + sorted_values[n \div 2 + 1], 2>>

\* a trim that drops the lowest value only
_trimmed_mean_lowest_only(values) ==
    IF Len(values) <= 2 THEN Mean(values)
    ELSE Mean(SubSeq(Sorted(values), 2, Len(values)))

_trimmed_mean(values) ==
    IF Len(values) <= 2 THEN Mean(values)
    ELSE Mean(SubSeq(Sorted(values), 2, Len(values) - 1))

\* a weight that ignores strictness
StrictnessWeightIgnored(persona_id) == 100

\* a weight that grows with strictness
StrictnessWeightDirect(persona_id) ==
    IF get_persona_raises(persona_id) THEN 100
    ELSE 100 + 3 * get_persona(persona_id).strictness

\* weight = 1.0 - persona.strictness * 0.3, in hundredths; 1.0 for an unknown persona
StrictnessWeight(persona_id) ==
    IF get_persona_raises(persona_id) THEN 100
    ELSE 100 - 3 * get_persona(persona_id).strictness

WeightedMean(values, weights) ==
    <<SumSeq([i \in DOMAIN values |-> values[i] * weights[i]]), SumSeq(weights)>>

\* line 150: no branch of the if/elif chain took the method, ValueError is raised
UnknownMethod == <<0, 0>>

\* a chain whose else falls back to the default method
AggregateValuesOrMedian(values, successful, method) ==
    CASE method = "mean" -> Mean(values)
      [] method = "median" -> Median(values)
      [] method = "trimmed_mean" ->
            IF Len(successful) >= 4 THEN _trimmed_mean(values) ELSE Median(values)
      [] method = "weighted_mean" ->
            WeightedMean(values, MapSeq(successful, LAMBDA x : StrictnessWeight(x.persona_id)))
      [] OTHER -> Median(values)

\* lines 97-150: the aggregate of one list of values under a method
AggregateValues(values, successful, method) ==
    CASE method = "mean" -> Mean(values)
      [] method = "median" -> Median(values)
      [] method = "trimmed_mean" ->
            IF Len(successful) >= 4 THEN _trimmed_mean(values) ELSE Median(values)
      [] method = "weighted_mean" ->
            WeightedMean(values, MapSeq(successful, LAMBDA x : StrictnessWeight(x.persona_id)))
      [] OTHER -> UnknownMethod

RECURSIVE ISqrtBetween(_, _, _)
\* the largest k in lo..hi with k * k <= n
ISqrtBetween(n, lo, hi) ==
    IF lo = hi THEN lo
    ELSE LET mid == (lo + hi + 1) \div 2
         IN  IF mid * mid <= n THEN ISqrtBetween(n, mid, hi)
             ELSE ISqrtBetween(n, lo, mid - 1)

\* round(statistics.stdev(values), 3) in thousandths, for values in hundredths:
\* 1000 * stdev = sqrt(100 * Q / D) with Q = sum (n * v - S)^2 and D = (n - 1) * n^2.
StdDev(values) ==
    LET n == Len(values)
        S == SumSeq(values)
        Q == SumSeq([i \in DOMAIN values |-> (n * values[i] - S) * (n * values[i] - S)])
        D == (n - 1) * n * n
        four == 400 * (Q \div D) + (400 * (Q % D)) \div D
    IN  (ISqrtBetween(four, 0, 20000) + 1) \div 2

\* a filter that keeps every result
SuccessfulOnlyUnfiltered(individual_scores) == individual_scores

SuccessfulOnly(individual_scores) == SelectSeq(individual_scores, LAMBDA x : x.success)

Round2(fraction) == RoundHalfEven(fraction[1], fraction[2])

NoAggregate ==
    [raises |-> TRUE, error |-> "", novelty_score |-> None, structure_score |-> None,
     thoroughness_score |-> None, clarity_score |-> None, overall_score |-> None,
     evaluator_count |-> None, successful_count |-> None, method |-> "",
     score_std_dev |-> None, max_disagreement |-> None, evaluator_breakdown |-> <<>>]

aggregate_scores(individual_scores, method) ==
    LET successful == SuccessfulOnly(individual_scores)
        novelty_scores == MapSeq(successful, LAMBDA x : x.novelty_score)
        structure_scores == MapSeq(successful, LAMBDA x : x.structure_score)
        thoroughness_scores == MapSeq(successful, LAMBDA x : x.thoroughness_score)
        clarity_scores == MapSeq(successful, LAMBDA x : x.clarity_score)
        weighted_scores == MapSeq(successful, LAMBDA x : x.weighted_score)
    IN  IF successful = <<>>
        THEN [NoAggregate EXCEPT !.error = "No successful evaluations to aggregate"]
        ELSE IF AggregateValues(weighted_scores, successful, method) = UnknownMethod
        THEN [NoAggregate EXCEPT !.error = "Unknown aggregation method: " \o method]
        ELSE [raises |-> FALSE, error |-> "",
              novelty_score |-> Round2(AggregateValues(novelty_scores, successful, method)),
              structure_score |-> Round2(AggregateValues(structure_scores, successful, method)),
              thoroughness_score |->
                  Round2(AggregateValues(thoroughness_scores, successful, method)),
              clarity_score |-> Round2(AggregateValues(clarity_scores, successful, method)),
              overall_score |-> Round2(AggregateValues(weighted_scores, successful, method)),
              evaluator_count |-> Len(individual_scores),
              successful_count |-> Len(successful),
              method |-> method,
              score_std_dev |->
                  IF Len(weighted_scores) > 1 THEN StdDev(weighted_scores) ELSE 0,
              max_disagreement |-> MaxOf(weighted_scores) - MinOf(weighted_scores),
              evaluator_breakdown |->
                  MapSeq(successful,
                         LAMBDA x : [provider |-> x.provider, persona |-> x.persona_id,
                                     weighted_score |-> x.weighted_score])]

(***************************************************************************)
(* generate_consensus_summary (aggregation.py): the lines of the summary,  *)
(* held as a record.                                                       *)
(***************************************************************************)
\* the thresholds taken as strict bounds
AgreementLabelStrict(max_disagreement) ==
    IF max_disagreement < 100 THEN "Strong agreement"
    ELSE IF max_disagreement < 200 THEN "Moderate agreement"
    ELSE IF max_disagreement < 300 THEN "Some disagreement"
    ELSE "Significant disagreement"

AgreementLabel(max_disagreement) ==
    IF max_disagreement <= 100 THEN "Strong agreement"
    ELSE IF max_disagreement <= 200 THEN "Moderate agreement"
    ELSE IF max_disagreement <= 300 THEN "Some disagreement"
    ELSE "Significant disagreement"

NoSummary ==
    [successful_count |-> None, evaluator_count |-> None, method |-> NoText,
     overall_score |-> None, score_std_dev |-> None, max_disagreement |-> None,
     consensus |-> NoText, breakdown |-> <<>>]

generate_consensus_summary(individual_scores, aggregated) ==
    IF SuccessfulOnly(individual_scores) = <<>>
    THEN [NoSummary EXCEPT !.consensus = "No successful evaluations."]
    ELSE [successful_count |-> aggregated.successful_count,
          evaluator_count |-> aggregated.evaluator_count,
          method |-> aggregated.method,
          overall_score |-> aggregated.overall_score,
          score_std_dev |-> aggregated.score_std_dev,
          max_disagreement |-> aggregated.max_disagreement,
          consensus |-> AgreementLabel(aggregated.max_disagreement),
          breakdown |-> aggregated.evaluator_breakdown]

(***************************************************************************)
(* MultiLLMJudge.__init__: the provider and persona lists of a judge built *)
(* from the settings, as run_evaluation builds it.                         *)
(***************************************************************************)
init_provider_names(configured, keys) ==
    LET provider_list ==
            SelectSeq(configured, LAMBDA p : p \in Range(get_available_providers(keys)))
    IN  IF provider_list = <<>> THEN <<"claude">> ELSE provider_list

init_persona_ids(configured) ==
    IF configured = <<>> THEN <<"rigorist", "synthesizer">> ELSE configured

\* MultiLLMJudge(db) takes the default method
aggregation_method == "median"

\* settings.evaluation_providers, the providers with an API key, and
\* settings.evaluation_personas of the deployments modelled
SettingsProviders ==
    {<<>>, <<"claude">>, <<"claude", "openai">>, <<"mistral", "claude">>}
SettingsPersonas ==
    {<<>>, <<"rigorist">>, <<"synthesizer", "rigorist">>, <<"rigorist", "nosuch">>}
\* deployments with an Anthropic key only, and with an OpenAI key too
SettingsKeys == {{"claude"}}
PanelKeys == {{"claude", "openai"}}

(***************************************************************************)
(* The Evaluation row (models/evaluation.py).                              *)
(***************************************************************************)
\* raw_llm_response, one JSONB column: None, or the "aggregation" object
NoRawResponse ==
    [successful_count |-> None, score_std_dev |-> None, max_disagreement |-> None,
     breakdown |-> <<>>]

NewEvaluation ==
    [status |-> "pending",
     novelty_score |-> None, structure_score |-> None, thoroughness_score |-> None,
     clarity_score |-> None, overall_score |-> None,
     novelty_feedback |-> <<>>, structure_feedback |-> <<>>,
     thoroughness_feedback |-> <<>>, clarity_feedback |-> <<>>,
     overall_summary |-> NoSummary,
     evaluator_count |-> None, aggregation_method |-> NoText,
     raw_llm_response |-> NoRawResponse,
     error_message |-> NoText]

\* Session.commit: the UPDATE carries the columns whose value differs from the
\* one the session loaded; the other columns of the row stay as committed.
Commit(row, loaded, changed) ==
    [f \in DOMAIN row |-> IF changed[f] # loaded[f] THEN changed[f] ELSE row[f]]

(***************************************************************************)
(* MultiLLMJudge._combine_feedback for one field.                          *)
(***************************************************************************)
_combine_feedback(individual_evals, field) ==
    MapSeq(SelectSeq(individual_evals, LAMBDA x : x.success /\ x.feedback[field] # ""),
           LAMBDA x : [persona |-> get_persona(x.persona_id).name,
                       provider |-> x.provider, feedback |-> x.feedback[field]])

(***************************************************************************)
(* Publication threshold (rubrics.py).                                     *)
(***************************************************************************)
MINIMUM_OVERALL_SCORE == 300

MeetsThreshold(overall_score) == overall_score >= MINIMUM_OVERALL_SCORE

(***************************************************************************)
(* Initial state: the ebook has been submitted (create_ebook committed the *)
(* ebook as pending_evaluation with a pending Evaluation), the settings    *)
(* are loaded, no run_evaluation has started.                              *)
(***************************************************************************)
\* no direct call of aggregate_scores is made
NotCalled == [NoAggregate EXCEPT !.error = "not called"]

NotAggregating ==
    /\ agg_input = <<>>
    /\ agg_method = aggregation_method
    /\ agg_result = NotCalled

Submitted(key_sets, callers) ==
    /\ settings \in [evaluation_providers : SettingsProviders,
                     evaluation_personas : SettingsPersonas]
    /\ registry = PERSONAS
    /\ \E keys \in key_sets :
          provider_names = init_provider_names(settings.evaluation_providers, keys)
    /\ persona_ids = init_persona_ids(settings.evaluation_personas)
    /\ completion = [r \in Runs |-> <<>>]
    /\ NotAggregating
    /\ ebook_status = "pending_evaluation"
    /\ evaluation = NewEvaluation
    /\ ev = [r \in Runs |-> NewEvaluation]
    /\ pc = [r \in Runs |-> IF r \in callers THEN "idle" ELSE "off"]
    /\ results = [r \in Runs |-> <<>>]
    /\ agg_calls = [r \in Runs |-> 0]
    /\ evaluation_rows = 1

\* no call of process_pending_evaluations is made
NotProcessing == process_pc = [r \in Runs |-> "off"]

\* every caller may ask for the evaluation of the ebook; the deployment has
\* the Anthropic key only and names that provider
Init ==
    /\ Submitted(SettingsKeys, Runs)
    /\ settings.evaluation_providers = <<"claude">>
    /\ NotProcessing

\* a two-provider panel, evaluated by one caller
InitPanel == Submitted(PanelKeys, {1}) /\ NotProcessing

(***************************************************************************)
(* run_evaluation, lines 52-69: load the ebook and check its status.       *)
(***************************************************************************)
\* the id of the ebook, and an id no ebook has
EbookIds == {"ebook", "unknown"}

\* a status check that lets every ebook through
PendingEvaluationAlways(status) == TRUE

\* line 60
PendingEvaluation(status) == status \in {"pending_evaluation", "evaluating"}

LoadEbook(r, ebook_id) ==
    /\ pc[r] = "idle"
    /\ pc' = [pc EXCEPT ![r] =
                IF ebook_id # "ebook" THEN "not_found"
                ELSE IF ~PendingEvaluation(ebook_status) THEN "not_pending"
                ELSE "loaded"]
    /\ UNCHANGED <<provider_names, persona_ids, ebook_status, evaluation, ev,
                   results, agg_calls, completion, fixed, evaluation_rows, process_pc>>

(***************************************************************************)
(* evaluate_ebook line 172, _get_or_create_evaluation.                     *)
(***************************************************************************)
\* a lookup that finds no row
ExistingEvaluationNever(rows) == FALSE

\* lines 410-413: the select finds the row of the ebook, if there is one
ExistingEvaluation(rows) == rows > 0

\* models/evaluation.py: ebook_id is unique, the flush of a second row raises
UniqueEbookId(rows) == rows = 0

_get_or_create_evaluation(r) ==
    /\ pc[r] = "loaded"
    /\ IF ExistingEvaluation(evaluation_rows)
       THEN /\ ev' = [ev EXCEPT ![r] = evaluation]
            /\ pc' = [pc EXCEPT ![r] = "got"]
            /\ UNCHANGED <<evaluation, evaluation_rows>>
       ELSE IF UniqueEbookId(evaluation_rows)
       THEN \* lines 415-421: a PENDING Evaluation is added and flushed
            /\ ev' = [ev EXCEPT ![r] = NewEvaluation]
            /\ evaluation' = NewEvaluation
            /\ evaluation_rows' = evaluation_rows + 1
            /\ pc' = [pc EXCEPT ![r] = "got"]
       ELSE \* the flush raises IntegrityError, outside evaluate_ebook's try
            /\ pc' = [pc EXCEPT ![r] = "flush_raised"]
            /\ UNCHANGED <<ev, evaluation, evaluation_rows>>
    /\ UNCHANGED <<provider_names, persona_ids, ebook_status,
                   results, agg_calls, completion, fixed, process_pc>>

(***************************************************************************)
(* evaluate_ebook lines 175-177: IN_PROGRESS, committed.                   *)
(***************************************************************************)
MarkInProgress(r) ==
    LET changed == [ev[r] EXCEPT !.status = "in_progress"]
    IN  /\ pc[r] = "got"
        /\ ev' = [ev EXCEPT ![r] = changed]
        /\ evaluation' = Commit(evaluation, ev[r], changed)
        /\ pc' = [pc EXCEPT ![r] = "in_progress"]
        /\ UNCHANGED <<provider_names, persona_ids, ebook_status, results, agg_calls,
                       completion, fixed, evaluation_rows, process_pc>>

(***************************************************************************)
(* evaluate_ebook lines 304-310, the except clause.                        *)
(***************************************************************************)
\* an except clause that records the failure and leaves the ebook as it is
FailsWithoutRejecting(r, message) ==
    LET changed == [ev[r] EXCEPT !.status = "failed", !.error_message = message]
    IN  /\ ev' = [ev EXCEPT ![r] = changed]
        /\ evaluation' = Commit(evaluation, ev[r], changed)
        /\ ebook_status' = ebook_status
        /\ pc' = [pc EXCEPT ![r] = "raised"]

Fails(r, message) ==
    LET changed == [ev[r] EXCEPT !.status = "failed", !.error_message = message]
    IN  /\ ev' = [ev EXCEPT ![r] = changed]
        /\ evaluation' = Commit(evaluation, ev[r], changed)
        /\ ebook_status' = "rejected"
        /\ pc' = [pc EXCEPT ![r] = "raised"]

(***************************************************************************)
(* evaluate_ebook lines 179-213: novelty detection, then one task per      *)
(* (provider, persona) pair, providers outermost, handed to gather.        *)
(***************************************************************************)
\* a task list that holds every pair twice
TaskListTwice(providers, personas) ==
    [i \in 1..(2 * Len(providers) * Len(personas)) |->
        PendingTask(providers[(((i - 1) \div Len(personas)) % Len(providers)) + 1],
                    personas[((i - 1) % Len(personas)) + 1])]

TaskList(providers, personas) ==
    [i \in 1..(Len(providers) * Len(personas)) |->
        PendingTask(providers[((i - 1) \div Len(personas)) + 1],
                    personas[((i - 1) % Len(personas)) + 1])]

Dispatch(r, novelty_ok) ==
    /\ pc[r] = "in_progress"
    /\ IF novelty_ok
       THEN /\ results' = [results EXCEPT ![r] = TaskList(provider_names, persona_ids)]
            /\ pc' = [pc EXCEPT ![r] = "gathering"]
            /\ UNCHANGED <<ebook_status, evaluation, ev>>
       ELSE /\ Fails(r, "novelty detection failed")
            /\ UNCHANGED results
    /\ UNCHANGED <<provider_names, persona_ids, agg_calls, completion, fixed,
                   evaluation_rows, process_pc>>

(***************************************************************************)
(* One task of the gather runs _run_single_evaluation to its end.          *)
(***************************************************************************)
RunTask(r, i, response) ==
    /\ pc[r] = "gathering"
    /\ i \in DOMAIN results[r]
    /\ results[r][i].state = "pending"
    /\ results' = [results EXCEPT ![r][i] =
                      _run_single_evaluation(results[r][i].provider,
                                             results[r][i].persona_id, response)]
    /\ completion' = [completion EXCEPT ![r] = Append(@, i)]
    /\ UNCHANGED <<provider_names, persona_ids, ebook_status, evaluation, ev,
                   pc, agg_calls, fixed, evaluation_rows, process_pc>>

(***************************************************************************)
(* asyncio.gather, line 213.  With return_exceptions the gather ends when  *)
(* every task has ended; without it, it ends at the first task that raises. *)
(***************************************************************************)
\* gather's own default for the flag
return_exceptions_default == FALSE

return_exceptions == TRUE

\* a gather that ends as soon as one task has failed or raised
GatherEndedAtFirstFailure(tasks) ==
    \/ \A i \in DOMAIN tasks : tasks[i].state # "pending"
    \/ \E i \in DOMAIN tasks : tasks[i].state = "raised"
    \/ \E i \in DOMAIN tasks : tasks[i].state = "returned" /\ ~tasks[i].success

GatherEnded(tasks) ==
    \/ \A i \in DOMAIN tasks : tasks[i].state # "pending"
    \/ ~return_exceptions /\ \E i \in DOMAIN tasks : tasks[i].state = "raised"

GatherRaises(tasks) ==
    ~return_exceptions /\ \E i \in DOMAIN tasks : tasks[i].state = "raised"

(***************************************************************************)
(* evaluate_ebook lines 215-302: collect, aggregate, complete, decide.     *)
(***************************************************************************)
\* lines 219-227: the results that are not exceptions, in gather's order
\* the results taken in the order the tasks ended, as asyncio.as_completed gives them
CollectedAsCompleted(tasks) ==
    LET r == CHOOSE run \in Runs : results[run] = tasks
    IN  SelectSeq([k \in DOMAIN completion[r] |-> tasks[completion[r][k]]],
                  LAMBDA x : x.state = "returned")

Collected(tasks) == SelectSeq(tasks, LAMBDA x : x.state = "returned")

Completed(loaded, individual_evals, aggregated) ==
    [loaded EXCEPT
        !.status = "completed",
        !.novelty_score = aggregated.novelty_score,
        !.structure_score = aggregated.structure_score,
        !.thoroughness_score = aggregated.thoroughness_score,
        !.clarity_score = aggregated.clarity_score,
        !.overall_score = aggregated.overall_score,
        !.novelty_feedback = _combine_feedback(individual_evals, "novelty"),
        !.structure_feedback = _combine_feedback(individual_evals, "structure"),
        !.thoroughness_feedback = _combine_feedback(individual_evals, "thoroughness"),
        !.clarity_feedback = _combine_feedback(individual_evals, "clarity"),
        !.overall_summary = generate_consensus_summary(individual_evals, aggregated),
        !.evaluator_count = aggregated.evaluator_count,
        !.aggregation_method = aggregation_method,
        !.raw_llm_response =
            [successful_count |-> aggregated.successful_count,
             score_std_dev |-> aggregated.score_std_dev,
             max_disagreement |-> aggregated.max_disagreement,
             breakdown |-> aggregated.evaluator_breakdown]]

\* individual_scores, aggregated and the updated object are each computed once
Collect(r) ==
    /\ pc[r] = "gathering"
    /\ GatherEnded(results[r])
    /\ \E individual_scores \in {Collected(results[r])} :
       \E aggregated \in {aggregate_scores(individual_scores, aggregation_method)} :
       \E changed \in {Completed(ev[r], individual_scores, aggregated)} :
          IF GatherRaises(results[r])
          THEN /\ Fails(r, "task raised")
               /\ UNCHANGED agg_calls
          ELSE IF individual_scores = <<>>
          THEN /\ Fails(r, "All individual evaluations failed")
               /\ UNCHANGED agg_calls
          ELSE IF aggregated.raises
          THEN /\ Fails(r, aggregated.error)
               /\ agg_calls' = [agg_calls EXCEPT ![r] = @ + 1]
          ELSE /\ agg_calls' = [agg_calls EXCEPT ![r] = @ + 1]
               /\ evaluation' = Commit(evaluation, ev[r], changed)
               \* line 300: refresh reloads the object from the committed row
               /\ ev' = [ev EXCEPT ![r] = Commit(evaluation, ev[r], changed)]
               /\ ebook_status' = IF MeetsThreshold(aggregated.overall_score)
                                  THEN "published" ELSE "rejected"
               /\ pc' = [pc EXCEPT ![r] = "returned"]
    /\ UNCHANGED <<provider_names, persona_ids, results, completion, fixed,
                   evaluation_rows, process_pc>>

Next ==
    \/ \E r \in Runs, ebook_id \in EbookIds : LoadEbook(r, ebook_id)
    \/ \E r \in Runs : _get_or_create_evaluation(r)
    \/ \E r \in Runs : MarkInProgress(r)
    \/ \E r \in Runs, novelty_ok \in BOOLEAN : Dispatch(r, novelty_ok)
    \/ \E r \in Runs : \E i \in DOMAIN results[r], response \in RunResponses :
            RunTask(r, i, response)
    \/ \E r \in Runs : Collect(r)

Spec == Init /\ [][Next]_vars

SpecPanel == InitPanel /\ [][Next]_vars

\* the deployment configured with the rigorist alone: one task for each run
InitOnePersona == Init /\ settings.evaluation_personas = <<"rigorist">>

SpecOnePersona == InitOnePersona /\ [][Next]_vars

(***************************************************************************)
(* _run_single_evaluation alone: one task for every provider name and      *)
(* persona id, registered or not, given every response.                    *)
(***************************************************************************)
InitRunner ==
    /\ \E provider_name \in PROVIDERS \cup {"mistral"} : provider_names = <<provider_name>>
    /\ \E persona_id \in DOMAIN PERSONAS \cup {"nosuch"} : persona_ids = <<persona_id>>
    /\ settings = [evaluation_providers |-> provider_names,
                   evaluation_personas |-> persona_ids]
    /\ registry = PERSONAS
    /\ completion = [r \in Runs |-> <<>>]
    /\ NotAggregating
    /\ ebook_status = "pending_evaluation"
    /\ evaluation = [NewEvaluation EXCEPT !.status = "in_progress"]
    /\ ev = [r \in Runs |-> IF r = 1 THEN evaluation ELSE NewEvaluation]
    /\ pc = [r \in Runs |-> IF r = 1 THEN "gathering" ELSE "off"]
    /\ results = [r \in Runs |-> IF r = 1 THEN TaskList(provider_names, persona_ids)
                                  ELSE <<>>]
    /\ agg_calls = [r \in Runs |-> 0]
    /\ evaluation_rows = 1
    /\ process_pc = [r \in Runs |-> "off"]

NextRunner == \E response \in Responses : RunTask(1, 1, response)

SpecRunner == InitRunner /\ [][NextRunner]_vars

(***************************************************************************)
(* Properties.                                                             *)
(***************************************************************************)
Finished(r) == pc[r] \in {"returned", "raised"}
Launched(r) == results[r] # <<>>
AllEnded(r) == \A i \in DOMAIN results[r] : results[r][i].state # "pending"
Succeeded(r) == {i \in DOMAIN results[r] : results[r][i].success}
ScoreFields == {"novelty_score", "structure_score", "thoroughness_score",
                "clarity_score", "overall_score"}

\* C1: when every launched task of a run ended with success = false, the run
\* leaves the Evaluation FAILED and never called aggregate_scores.
C1_AllFailedNeverAggregates ==
    \A r \in Runs :
        (/\ Finished(r)
         /\ Launched(r)
         /\ \A i \in DOMAIN results[r] :
               results[r][i].state = "returned" /\ ~results[r][i].success)
        => (ev[r].status = "failed" /\ agg_calls[r] = 0)

\* C2: the Evaluation's status changes only pending -> in_progress,
\* in_progress -> completed and in_progress -> failed; a completed or failed
\* Evaluation never changes status again.
AllowedTransitions ==
    {<<"pending", "in_progress">>, <<"in_progress", "completed">>,
     <<"in_progress", "failed">>}

C2_StatusTransitions ==
    [][evaluation'.status # evaluation.status
       => <<evaluation.status, evaluation'.status>> \in AllowedTransitions]_vars

\* C3: when evaluate_ebook has returned or raised, the Evaluation it worked on
\* is COMPLETED with every score set and no error message, or FAILED with an
\* error message and no score set.
WellFormed(e) ==
    \/ /\ e.status = "completed"
       /\ \A f \in ScoreFields : e[f] # None
       /\ e.error_message = NoText
    \/ /\ e.status = "failed"
       /\ \A f \in ScoreFields : e[f] = None
       /\ e.error_message # NoText

C3_TerminalWellFormed == \A r \in Runs : Finished(r) => WellFormed(ev[r])

\* C4: when a run has ended its gather, every task of the cartesian product has
\* run to its end, and the outcome of each is one it produces from its own
\* provider, persona and response alone, whatever its siblings did.
OwnOutcomes(provider_name, persona_id) ==
    {_run_single_evaluation(provider_name, persona_id, response) :
        response \in RunResponses}

C4_SiblingsUnaffected ==
    \A r \in Runs :
        (Finished(r) /\ Launched(r))
        => /\ Len(results[r]) = Len(provider_names) * Len(persona_ids)
           /\ \A i \in DOMAIN results[r] :
                 results[r][i] \in
                     OwnOutcomes(TaskList(provider_names, persona_ids)[i].provider,
                                 TaskList(provider_names, persona_ids)[i].persona_id)

\* a run that completed although one task raised, one returned a failure and
\* one succeeded
C4_Witness ==
    \E r \in Runs :
        /\ pc[r] = "returned"
        /\ \E i, j, k \in DOMAIN results[r] :
              /\ results[r][i].state = "raised"
              /\ results[r][j].state = "returned" /\ ~results[r][j].success
              /\ results[r][k].success

\* C5: the step in which a run calls aggregate_scores, sets a terminal status
\* or decides publish/reject starts with no task of the run still pending.
C5_JoinBeforeDecision ==
    [][\A r \in Runs :
          (\/ agg_calls'[r] # agg_calls[r]
           \/ (pc[r] = "gathering" /\ pc'[r] # "gathering"))
          => AllEnded(r)]_vars

\* a run that aggregated after a task of it had failed
C5_Witness ==
    \E r \in Runs :
        /\ Finished(r)
        /\ agg_calls[r] = 1
        /\ \E i, j \in DOMAIN results[r] :
              /\ results[r][i].state = "returned" /\ ~results[r][i].success
              /\ results[r][j].success

\* C6: the AggregatedScore of a completed run has evaluator_count equal to
\* |providers| x |personas|, and successful_count <= evaluator_count.
C6_EvaluatorCountIsProduct ==
    \A r \in Runs :
        pc[r] = "returned"
        => /\ ev[r].evaluator_count = Len(provider_names) * Len(persona_ids)
           /\ ev[r].raw_llm_response.successful_count <= ev[r].evaluator_count

\* C7: when exactly one of the N tasks of a run succeeded, the Evaluation is
\* COMPLETED with successful_count 1, evaluator_count N and score_std_dev 0.
C7_ExactlyOneSucceeds ==
    \A r \in Runs :
        (Finished(r) /\ Launched(r) /\ AllEnded(r) /\ Cardinality(Succeeded(r)) = 1)
        => /\ ev[r].status = "completed"
           /\ ev[r].raw_llm_response.successful_count = 1
           /\ ev[r].evaluator_count = Len(results[r])
           /\ ev[r].raw_llm_response.score_std_dev = 0

\* C8: for a registered provider and persona, a task whose provider call
\* raises or whose response has no JSON, invalid JSON, a missing dimension, a
\* missing score, or a score that is no number or lies outside [1,10], returns
\* a result with success = false and the error message recorded.
C8_ProviderFailureIsData ==
    [][\A r \in Runs : \A i \in DOMAIN results[r] : \A response \in FailingResponses :
          (/\ RunTask(r, i, response)
           /\ ~get_persona_raises(results[r][i].persona_id)
           /\ ~get_provider_raises(results[r][i].provider))
          => /\ results'[r][i].state = "returned"
             /\ results'[r][i].called
             /\ ~results'[r][i].success
             /\ results'[r][i].error_message # NoText
             /\ results'[r][i].weighted_score = 0]_vars

\* a task that returned a failure for a score above the range
C8_Witness ==
    \E r \in Runs : \E i \in DOMAIN results[r] :
        /\ results[r][i].state = "returned"
        /\ ~results[r][i].success
        /\ results[r][i].error_message = "Score for novelty out of range"

\* C9: the step in which evaluate_ebook finishes leaves the ebook published
\* when the Evaluation is COMPLETED with overall_score >= MINIMUM_OVERALL_SCORE,
\* and rejected in every other outcome.
C9_PublishedIffThreshold ==
    [][\A r \in Runs :
          (~Finished(r) /\ Finished(r)')
          => IF ev'[r].status = "completed"
                /\ ev'[r].overall_score >= MINIMUM_OVERALL_SCORE
             THEN ebook_status' = "published"
             ELSE ebook_status' = "rejected"]_vars

\* C10: with an unregistered persona or provider id in the configured lists,
\* no run calls a scoring provider and no run completes.
HasUnknownId ==
    \/ \E i \in DOMAIN persona_ids : get_persona_raises(persona_ids[i])
    \/ \E i \in DOMAIN provider_names : get_provider_raises(provider_names[i])

C10_UnknownIdFailsFast ==
    HasUnknownId
    => \A r \in Runs :
          /\ \A i \in DOMAIN results[r] : ~results[r][i].called
          /\ pc[r] # "returned"

\* C11: when the configured provider list or the configured persona list is
\* empty, no run creates a task and no run completes the Evaluation (the run
\* fails with a configuration error before doing any work).
EmptyConfiguration ==
    \/ settings.evaluation_providers = <<>>
    \/ settings.evaluation_personas = <<>>

C11_EmptyConfigurationFailsFast ==
    EmptyConfiguration
    => \A r \in Runs : results[r] = <<>> /\ pc[r] # "returned"

(***************************************************************************)
(* aggregate_scores alone: a caller hands it a list of IndividualScore     *)
(* objects and a method.  The caller has registered two personas of its    *)
(* own in PERSONAS, of strictness 0.0 and 1.0.                             *)
(***************************************************************************)
MaxScores == 4        \* length of the list handed to aggregate_scores

LENIENT ==
    [name |-> "The Lenient", novelty |-> 25, structure |-> 25,
     thoroughness |-> 25, clarity |-> 25, strictness |-> 0]
HARSH ==
    [name |-> "The Harsh", novelty |-> 25, structure |-> 25,
     thoroughness |-> 25, clarity |-> 25, strictness |-> 10]

CallerPersonas ==
    [id \in {"lenient", "harsh"} |-> IF id = "lenient" THEN LENIENT ELSE HARSH]

\* the IndividualScore objects of the lists: what tasks returned, one of them
\* relabelled with a persona id that is not registered
IndividualScores ==
    {_run_single_evaluation("claude", "rigorist", RespRaises),
     _run_single_evaluation("claude", "rigorist", ScoredResponse(900, 900, 900, 900)),
     _run_single_evaluation("openai", "synthesizer", ScoredResponse(800, 800, 800, 800)),
     [_run_single_evaluation("gemini", "stylist", ScoredResponse(700, 700, 700, 700))
         EXCEPT !.persona_id = "nosuch"],
     _run_single_evaluation("claude", "lenient", ScoredResponse(200, 200, 200, 200)),
     _run_single_evaluation("openai", "harsh", ScoredResponse(200, 920, 216, 200)),
     _run_single_evaluation("gemini", "synthesizer", RespEdge)}

\* "mode" is no AggregationMethod
CallerMethods == AggregationMethods \cup {"mode"}

InitAggregate ==
    /\ registry = PERSONAS @@ CallerPersonas
    /\ settings = [evaluation_providers |-> <<"claude">>, evaluation_personas |-> <<>>]
    /\ provider_names = <<"claude">>
    /\ persona_ids = <<"rigorist", "synthesizer">>
    /\ ebook_status = "pending_evaluation"
    /\ evaluation = NewEvaluation
    /\ ev = [r \in Runs |-> NewEvaluation]
    /\ pc = [r \in Runs |-> "off"]
    /\ results = [r \in Runs |-> <<>>]
    /\ agg_calls = [r \in Runs |-> 0]
    /\ evaluation_rows = 1
    /\ process_pc = [r \in Runs |-> "off"]
    /\ completion = [r \in Runs |-> <<>>]
    /\ agg_input \in UNION {[1..n -> IndividualScores] : n \in 0..MaxScores}
    /\ agg_method \in CallerMethods
    /\ agg_result = NotCalled

Aggregate ==
    /\ agg_result = NotCalled
    /\ agg_result' = aggregate_scores(agg_input, agg_method)
    /\ UNCHANGED <<provider_names, persona_ids, ebook_status, evaluation, ev, pc,
                   results, agg_calls, completion, settings, registry,
                   agg_input, agg_method, evaluation_rows, process_pc>>

NextAggregate == Aggregate

SpecAggregate == InitAggregate /\ [][NextAggregate]_vars

\* the direct call of aggregate_scores has been made
Called == agg_result # NotCalled
Successes == SelectSeq(agg_input, LAMBDA x : x.success)
WeightedScores == MapSeq(Successes, LAMBDA x : x.weighted_score)

\* C12: for each of the four methods, a call of aggregate_scores whose input
\* holds no successful result (the empty list, or failed results only) raises
\* "No successful evaluations to aggregate" and gives no AggregatedScore.
C12_NoSuccessRaises ==
    (Called /\ Successes = <<>> /\ agg_method \in AggregationMethods)
    => /\ agg_result.raises
       /\ agg_result.error = "No successful evaluations to aggregate"
       /\ agg_result.overall_score = None

\* a call with failed results only, under weighted_mean, that raised
C12_Witness ==
    /\ Called
    /\ Len(agg_input) >= 2
    /\ Successes = <<>>
    /\ agg_method = "weighted_mean"
    /\ agg_result.raises

\* C13: a call of aggregate_scores with a method that is not one of the four,
\* on an input with at least one successful result, raises "Unknown
\* aggregation method" and gives no AggregatedScore.
C13_UnknownMethodRaises ==
    (Called /\ Successes # <<>> /\ agg_method \notin AggregationMethods)
    => /\ agg_result.raises
       /\ agg_result.error = "Unknown aggregation method: " \o agg_method
       /\ \A f \in ScoreFields : agg_result[f] = None

\* a call with method "mode" and three successful results that raised
C13_Witness ==
    /\ Called
    /\ agg_method = "mode"
    /\ Len(Successes) = 3
    /\ agg_result.raises

\* The five aggregates of an AggregatedScore, each with the field of the
\* successful results it is computed from.
AggregateFields ==
    {<<"novelty_score", "novelty_score">>, <<"structure_score", "structure_score">>,
     <<"thoroughness_score", "thoroughness_score">>,
     <<"clarity_score", "clarity_score">>, <<"overall_score", "weighted_score">>}

ValuesOf(field) == [i \in DOMAIN Successes |-> Successes[i][field]]
Largest(v) == CHOOSE x \in Range(v) : \A y \in Range(v) : y <= x
Smallest(v) == CHOOSE x \in Range(v) : \A y \in Range(v) : x <= y
\* the k-th smallest value of v, by counting
Kth(v, k) ==
    CHOOSE x \in Range(v) :
        /\ Cardinality({i \in DOMAIN v : v[i] < x}) < k
        /\ k <= Cardinality({i \in DOMAIN v : v[i] <= x})
MedianOf(v) ==
    IF Len(v) % 2 = 1 THEN RoundHalfEven(Kth(v, (Len(v) + 1) \div 2), 1)
    ELSE RoundHalfEven(Kth(v, Len(v) \div 2) + Kth(v, Len(v) \div 2 + 1), 2)
Reversed(s) == [i \in DOMAIN s |-> s[Len(s) + 1 - i]]

\* No aggregate of the lists modelled falls halfway between two hundredths,
\* where round() of the float the source computes and the exact fraction kept
\* here could round apart.
NoRoundingTie ==
    (Successes # <<>> /\ agg_method \in AggregationMethods)
    => \A f \in AggregateFields :
          LET q == AggregateValues(ValuesOf(f[2]), Successes, agg_method)
          IN  2 * (q[1] % q[2]) # q[2]

\* C14: under trimmed_mean each of the five aggregates is, for four or more
\* successful results, the mean of their values without one lowest and one
\* highest value, and for three or fewer, the median of their values;
\* [9.0, 8.0, 7.0, 2.0] gives 7.5 and [9.0, 8.0, 2.0] gives 8.0.
C14_TrimmedMean ==
    (Called /\ agg_method = "trimmed_mean" /\ Successes # <<>>)
    => /\ ~agg_result.raises
       /\ \A f \in AggregateFields :
             LET v == ValuesOf(f[2])
             IN  agg_result[f[1]] =
                    IF Len(v) >= 4
                    THEN RoundHalfEven(SumSeq(v) - Largest(v) - Smallest(v), Len(v) - 2)
                    ELSE MedianOf(v)
       /\ WeightedScores = <<900, 800, 700, 200>> => agg_result.overall_score = 750
       /\ WeightedScores = <<900, 800, 200>> => agg_result.overall_score = 800

\* four successful results whose highest value is duplicated: [9, 9, 8, 2] gives 8.5
C14_Witness ==
    /\ Called
    /\ agg_method = "trimmed_mean"
    /\ WeightedScores = <<900, 900, 800, 200>>
    /\ agg_result.overall_score = 850

\* C15: under mean each aggregate is the arithmetic mean of the successful
\* values and under median their statistical median (for an even count the mean
\* of the two middle values); the same results in reverse order give the same
\* aggregates; [9.0, 8.0, 7.0, 2.0] gives mean 6.5 and median 7.5.
C15_MeanAndMedian ==
    (Called /\ agg_method \in {"mean", "median"} /\ Successes # <<>>)
    => /\ ~agg_result.raises
       /\ \A f \in AggregateFields :
             LET v == ValuesOf(f[2])
             IN  /\ agg_result[f[1]] =
                        IF agg_method = "mean" THEN RoundHalfEven(SumSeq(v), Len(v))
                        ELSE MedianOf(v)
                 /\ aggregate_scores(Reversed(agg_input), agg_method)[f[1]]
                        = agg_result[f[1]]
       /\ WeightedScores = <<900, 800, 700, 200>>
          => agg_result.overall_score = IF agg_method = "mean" THEN 650 ELSE 750

\* the median of the four weighted scores 2.0, 9.0, 7.0, 8.0, given unsorted
C15_Witness ==
    /\ Called
    /\ agg_method = "median"
    /\ WeightedScores = <<200, 900, 700, 800>>
    /\ agg_result.overall_score = 750

\* Strictness of the personas of the registry, in tenths.
StrictnessTenths ==
    [id \in {"rigorist", "synthesizer", "stylist", "contrarian", "pedagogue",
             "lenient", "harsh"} |->
        CASE id = "rigorist" -> 8
          [] id = "synthesizer" -> 5
          [] id = "stylist" -> 6
          [] id = "contrarian" -> 7
          [] id = "pedagogue" -> 5
          [] id = "lenient" -> 0
          [] id = "harsh" -> 10]

\* w = 1.0 - 0.3 * strictness in hundredths, 1.0 for an id that is not registered
ExpectedWeight(persona_id) ==
    IF persona_id \in DOMAIN StrictnessTenths
    THEN 100 - 3 * StrictnessTenths[persona_id] ELSE 100

\* C16: under weighted_mean each aggregate is sum(value_i * w_i) / sum(w_i)
\* over the successful results, with w_i = 1.0 - 0.3 * strictness of result i's
\* persona and w_i = 1.0 for a persona id that is not registered; the call
\* does not raise on such an id.
C16_WeightedMean ==
    (Called /\ agg_method = "weighted_mean" /\ Successes # <<>>)
    => /\ ~agg_result.raises
       /\ \A f \in AggregateFields :
             LET v == ValuesOf(f[2])
                 w == [i \in DOMAIN Successes |-> ExpectedWeight(Successes[i].persona_id)]
             IN  agg_result[f[1]] =
                    RoundHalfEven(SumSeq([i \in DOMAIN v |-> v[i] * w[i]]), SumSeq(w))

\* rigorist 9.0 (w 0.76) and an unregistered persona 7.0 (w 1.0):
\* (9.0 * 0.76 + 7.0 * 1.0) / 1.76 = 7.86
C16_Witness ==
    /\ Called
    /\ agg_method = "weighted_mean"
    /\ Len(Successes) = 2
    /\ Successes[1].persona_id = "rigorist"
    /\ Successes[2].persona_id = "nosuch"
    /\ agg_result.overall_score = 786

\* Two successful results, one of a persona of strictness 0.0 and one of a
\* persona of strictness 1.0, aggregated by weighted_mean.
LenientAndHarsh ==
    /\ Called
    /\ agg_method = "weighted_mean"
    /\ Len(agg_input) = 2
    /\ Len(Successes) = 2
    /\ {Successes[1].persona_id, Successes[2].persona_id} = {"lenient", "harsh"}
    /\ registry["lenient"].strictness = 0
    /\ registry["harsh"].strictness = 10

MeanOfSame == aggregate_scores(agg_input, "mean")

\* C17: for two successful results whose personas have strictness 0.0 and
\* 1.0, every weighted_mean aggregate differs from the mean aggregate of the
\* same raw values.
C17_WeightedDiffersFromMean ==
    LenientAndHarsh
    => \A f \in AggregateFields : agg_result[f[1]] # MeanOfSame[f[1]]

\* C17 as amended: the weighted_mean aggregate differs from the mean aggregate
\* when the two raw values are at least 0.12 apart, and equals it when the two
\* raw values are equal.
C17_WeightedDiffersWhenValuesDiffer ==
    LenientAndHarsh
    => \A f \in AggregateFields :
          LET v == ValuesOf(f[2])
          IN  /\ (v[1] - v[2] >= 12 \/ v[2] - v[1] >= 12)
                    => agg_result[f[1]] # MeanOfSame[f[1]]
              /\ v[1] = v[2] => agg_result[f[1]] = MeanOfSame[f[1]]

\* thoroughness 2.00 and 2.16: mean 2.08, weighted_mean 2.07; novelty 2.00 and
\* 2.00: both 2.00
C17_Witness ==
    /\ LenientAndHarsh
    /\ MeanOfSame.thoroughness_score = 208
    /\ agg_result.thoroughness_score = 207
    /\ MeanOfSame.novelty_score = 200
    /\ agg_result.novelty_score = 200

\* C18: under every method, max_disagreement is the largest difference
\* between two successful weighted scores, and 0.0 when exactly one result
\* succeeded; [9.0, 8.0, 7.0, 2.0] gives 7.0.
C18_MaxDisagreement ==
    (Called /\ agg_method \in AggregationMethods /\ Successes # <<>>)
    => /\ ~agg_result.raises
       /\ \E i, j \in DOMAIN WeightedScores :
             agg_result.max_disagreement = WeightedScores[i] - WeightedScores[j]
       /\ \A i, j \in DOMAIN WeightedScores :
             WeightedScores[i] - WeightedScores[j] <= agg_result.max_disagreement
       /\ Len(Successes) = 1 => agg_result.max_disagreement = 0
       /\ WeightedScores = <<900, 800, 700, 200>> => agg_result.max_disagreement = 700

\* the weighted scores 8.0, 2.0, 9.0 with a failed result among them, under
\* trimmed_mean: 7.0
C18_Witness ==
    /\ Called
    /\ agg_method = "trimmed_mean"
    /\ Len(agg_input) = 4
    /\ WeightedScores = <<800, 200, 900>>
    /\ agg_result.max_disagreement = 700

\* C19: under each of the four methods, whenever at least one result
\* succeeded (its four dimension scores within [1,10], its persona's weights
\* summing to 1.0), the overall_score aggregate_scores gives, which the
\* COMPLETED Evaluation takes, is within [1,10].
InputsInRange ==
    \A i \in DOMAIN Successes :
        /\ \A f \in {"novelty_score", "structure_score", "thoroughness_score",
                     "clarity_score"} :
              100 <= Successes[i][f] /\ Successes[i][f] <= 1000
        /\ Successes[i].persona_id \in DOMAIN registry
           => LET persona == registry[Successes[i].persona_id]
              IN  persona.novelty + persona.structure + persona.thoroughness
                  + persona.clarity = 100

C19_OverallInRange ==
    (Called /\ agg_method \in AggregationMethods /\ Successes # <<>> /\ InputsInRange)
    => /\ ~agg_result.raises
       /\ 100 <= agg_result.overall_score
       /\ agg_result.overall_score <= 1000

\* successes and a failure together, dimension scores at both ends of the range
C19_Witness ==
    /\ Called
    /\ agg_method = "weighted_mean"
    /\ InputsInRange
    /\ Len(Successes) >= 2
    /\ Len(Successes) < Len(agg_input)
    /\ agg_result.novelty_score = 100
    /\ agg_result.structure_score = 1000
    /\ 100 <= agg_result.overall_score
    /\ agg_result.overall_score <= 1000

\* Place of a (provider, persona) pair in task construction order: providers
\* in configured order, personas in configured order within each provider.
IndexIn(s, x) == CHOOSE i \in DOMAIN s : s[i] = x
ConstructionPlace(provider_name, persona_id) ==
    (IndexIn(provider_names, provider_name) - 1) * Len(persona_ids)
    + IndexIn(persona_ids, persona_id)

ReturnedResults(r) == SelectSeq(results[r], LAMBDA x : x.state = "returned")
SuccessfulResults(r) == SelectSeq(results[r], LAMBDA x : x.state = "returned" /\ x.success)
FieldOf(s, field) == [i \in DOMAIN s |-> s[i][field]]

MaxJudged == 2        \* length of the list that is summarised

\* weighted scores around 1.0, 2.0 and 3.0 above 5.0
JudgedValues == {500, 599, 600, 601, 699, 700, 701, 799, 800, 801}

JudgedScores ==
    {_run_single_evaluation("claude", "rigorist", RespRaises)}
    \cup {_run_single_evaluation("claude", "rigorist", ScoredResponse(x, x, x, x)) :
            x \in JudgedValues}

InitSummary ==
    /\ registry = PERSONAS
    /\ settings = [evaluation_providers |-> <<"claude">>, evaluation_personas |-> <<>>]
    /\ provider_names = <<"claude">>
    /\ persona_ids = <<"rigorist", "synthesizer">>
    /\ ebook_status = "pending_evaluation"
    /\ evaluation = NewEvaluation
    /\ ev = [r \in Runs |-> NewEvaluation]
    /\ pc = [r \in Runs |-> "off"]
    /\ results = [r \in Runs |-> <<>>]
    /\ agg_calls = [r \in Runs |-> 0]
    /\ evaluation_rows = 1
    /\ process_pc = [r \in Runs |-> "off"]
    /\ completion = [r \in Runs |-> <<>>]
    /\ agg_input \in UNION {[1..n -> JudgedScores] : n \in 1..MaxJudged}
    /\ agg_method \in AggregationMethods
    /\ agg_result = NotCalled

Summarize ==
    LET aggregated == aggregate_scores(agg_input, agg_method)
    IN  /\ agg_result = NotCalled
        /\ agg_result' = aggregated
        /\ evaluation' =
              IF aggregated.raises THEN evaluation
              ELSE [evaluation EXCEPT
                       !.overall_summary = generate_consensus_summary(agg_input, aggregated)]
        /\ UNCHANGED <<provider_names, persona_ids, ebook_status, ev, pc, results,
                       agg_calls, completion, settings, registry, agg_input, agg_method,
                       evaluation_rows, process_pc>>

NextSummary == Summarize

SpecSummary == InitSummary /\ [][NextSummary]_vars

\* the summary of a list with a successful result has been made
Summarised == Called /\ ~agg_result.raises

\* C22: the summary carries one agreement label, fixed by max_disagreement:
\* strong up to and including 1.0, moderate above 1.0 up to and including 2.0,
\* some disagreement above 2.0 up to and including 3.0, significant above 3.0.
C22_ConsensusLabel ==
    Summarised =>
        LET summary == evaluation.overall_summary
            d == Largest(WeightedScores) - Smallest(WeightedScores)
        IN  /\ summary.max_disagreement = d
            /\ d <= 100 => summary.consensus = "Strong agreement"
            /\ (100 < d /\ d <= 200) => summary.consensus = "Moderate agreement"
            /\ (200 < d /\ d <= 300) => summary.consensus = "Some disagreement"
            /\ d > 300 => summary.consensus = "Significant disagreement"

\* a summary made at a boundary: max_disagreement exactly 3.0, labelled
\* "Some disagreement"
C22_Witness ==
    /\ Summarised
    /\ evaluation.overall_summary.max_disagreement = 300
    /\ evaluation.overall_summary.consensus = "Some disagreement"

\* the ids the Persona Registry holds at startup
RegisteredIds == {"rigorist", "synthesizer", "stylist", "contrarian", "pedagogue"}

\* C23: the four weights of each of the five registered personas sum to 1.0
\* (100 hundredths) in every state, and no step of the engine changes the
\* registry (weights and strictness included).
C23_PersonaWeightsFixed ==
    /\ [](\A id \in RegisteredIds :
            /\ id \in DOMAIN registry
            /\ registry[id].novelty + registry[id].structure
               + registry[id].thoroughness + registry[id].clarity = 100)
    /\ [][registry' = registry]_vars

\* a run has completed with a rigorist result scored under the rigorist's
\* weights (0.2, 0.2, 0.4, 0.2 of 2.0, 4.0, 4.0, 2.0 is 3.2), strictness still 0.8
C23_Witness ==
    /\ pc[1] = "returned"
    /\ \E i \in DOMAIN results[1] :
          /\ results[1][i].persona_id = "rigorist"
          /\ results[1][i].success
          /\ results[1][i].weighted_score = 320
    /\ registry["rigorist"].strictness = 8

(***************************************************************************)
(* Claims about the runner's score validation, the Evaluation entity of an *)
(* ebook and the runs of the orchestrator.                                 *)
(***************************************************************************)
\* the responses whose JSON parses and holds every dimension, with the score
\* of one dimension omitted or not convertible by float()
UnscoredResponses == {RespMissingScore, RespNotANumber}

\* the score the claim gives a dimension of such a response: its own, or 5.0
ScoreOrDefault(entry) ==
    IF entry.has_score /\ entry.numeric THEN entry.score ELSE 500

C25_OneEvaluationPerEbook ==
    /\ [](evaluation_rows <= 1)
    /\ [][\A r \in Runs :
            (pc[r] = "loaded" /\ pc'[r] # "loaded" /\ evaluation_rows > 0)
            => /\ pc'[r] = "got"
               /\ ev'[r] = evaluation
               /\ evaluation' = evaluation
               /\ evaluation_rows' = evaluation_rows]_vars

\* a second run has been handed the Evaluation a first run completed, and
\* the ebook still has the one row
C25_Witness ==
    \E r1, r2 \in Runs :
        /\ r1 # r2
        /\ pc[r1] = "returned"
        /\ pc[r2] = "got"
        /\ ev[r2].status = "completed"
        /\ ev[r2] = evaluation
        /\ evaluation_rows = 1

(***************************************************************************)
(* Scheduling.  A run that has been started is a coroutine on an event     *)
(* loop: whenever it can take its next step it eventually takes it, and    *)
(* every scoring provider call and the novelty analysis end, by returning  *)
(* or by raising.  Whether and when a caller starts a run is left open.    *)
(***************************************************************************)
Proceed(r) ==
    \/ _get_or_create_evaluation(r)
    \/ MarkInProgress(r)
    \/ \E novelty_ok \in BOOLEAN : Dispatch(r, novelty_ok)
    \/ \E i \in DOMAIN results[r], response \in RunResponses : RunTask(r, i, response)
    \/ Collect(r)

FairSpec == SpecPanel /\ WF_vars(Proceed(1))

\* C26: every run that has put the Evaluation in IN_PROGRESS ends, and the
\* step in which a run ends leaves the Evaluation COMPLETED or FAILED and the
\* ebook PUBLISHED or REJECTED.
C26_RunsEndTerminal ==
    /\ \A r \in Runs : (pc[r] \in {"in_progress", "gathering"}) ~> Finished(r)
    /\ [][\A r \in Runs :
            (~Finished(r) /\ Finished(r)')
            => /\ evaluation'.status \in {"completed", "failed"}
               /\ ebook_status' \in {"published", "rejected"}]_vars

\* a run has ended FAILED after one of its tasks raised and the other failed
C26_Witness ==
    \E r \in Runs :
        /\ pc[r] = "raised"
        /\ \E i, j \in DOMAIN results[r] :
              /\ results[r][i].state = "raised"
              /\ results[r][j].state = "returned" /\ ~results[r][j].success
        /\ evaluation.status = "failed"
        /\ ebook_status = "rejected"

\* the calls of provider.evaluate run r has made for a (provider, persona)
\* pair: the ended tasks of the pair that reached the call
ProviderCalls(r, provider_name, persona_id) ==
    {k \in DOMAIN completion[r] :
        LET task == results[r][completion[r][k]]
        IN  /\ task.called
            /\ task.provider = provider_name
            /\ task.persona_id = persona_id}

\* C27: within one run the scoring provider is called at most once for each
\* (provider, persona) pair, and a task that has ended, failed or not, is
\* not run again.
C27_OneCallPerPair ==
    /\ [](\A r \in Runs :
            \A provider_name \in Range(provider_names), persona_id \in Range(persona_ids) :
                Cardinality(ProviderCalls(r, provider_name, persona_id)) <= 1)
    /\ [][\A r \in Runs : \A i \in DOMAIN results[r] :
            results[r][i].state # "pending" => results'[r][i] = results[r][i]]_vars

\* a run of four pairs has ended with every pair called once, the call of
\* claude/rigorist having failed
C27_Witness ==
    /\ Finished(1)
    /\ Len(results[1]) = 4
    /\ \A i \in DOMAIN results[1] :
          /\ results[1][i].called
          /\ Cardinality(ProviderCalls(1, results[1][i].provider,
                                       results[1][i].persona_id)) = 1
    /\ results[1][1].provider = "claude"
    /\ results[1][1].persona_id = "rigorist"
    /\ ~results[1][1].success

\* the runs that are past run_evaluation's status check and have not ended
Executing == {r \in Runs : pc[r] \in {"loaded", "got", "in_progress", "gathering"}}

\* C28: at most one run executes at a time for the ebook, and no step
\* changes a PUBLISHED or REJECTED ebook status or a COMPLETED or FAILED
\* Evaluation status.
C28_NoOverlappingRuns ==
    /\ [](Cardinality(Executing) <= 1)
    /\ [][/\ ebook_status \in {"published", "rejected"} => ebook_status' = ebook_status
          /\ evaluation.status \in {"completed", "failed"}
             => evaluation'.status = evaluation.status]_vars

\* run r has returned an error result from run_evaluation's checks
ReturnedError(r) == pc[r] \in {"not_found", "not_pending"}

\* C29: a call of run_evaluation for an id no ebook has, or for the ebook when
\* it is PUBLISHED or REJECTED, returns an error result in its first step,
\* changes neither the ebook status nor the Evaluation nor any task result,
\* and the call does nothing afterwards: no judge is invoked for it.
C29_RejectedCallChangesNothing ==
    [][\A r \in Runs :
          /\ (\/ LoadEbook(r, "unknown")
              \/ /\ LoadEbook(r, "ebook")
                 /\ ebook_status \in {"published", "rejected"})
             => /\ ReturnedError(r)'
                /\ UNCHANGED <<ebook_status, evaluation, results, ev, agg_calls>>
          /\ ReturnedError(r)
             => /\ pc'[r] = pc[r]
                /\ results'[r] = <<>>
                /\ ev'[r] = ev[r]
                /\ agg_calls'[r] = 0]_vars

\* a call for the published ebook and a call for an unknown id have both
\* returned an error, the completed Evaluation being that of the run that ended
C29_Witness ==
    \E r1, r2, r3 \in Runs :
        /\ pc[r1] = "returned"
        /\ pc[r2] = "not_pending"
        /\ pc[r3] = "not_found"
        /\ ebook_status = "published"
        /\ evaluation.status = "completed"
        /\ results[r2] = <<>> /\ results[r3] = <<>>

(***************************************************************************)
(* process_pending_evaluations (tasks.py), called with mode "multi".  Call *)
(* b selects the ebooks that are pending_evaluation, marks the ebook it    *)
(* picked as evaluating, commits, awaits run_evaluation (run b) and        *)
(* returns the results.  Two calls are made, by two workers.               *)
(***************************************************************************)
Workers == {1, 2}

InitPending ==
    /\ Submitted(SettingsKeys, {})
    /\ settings.evaluation_providers = <<"claude">>
    /\ process_pc = [r \in Runs |-> IF r \in Workers THEN "idle" ELSE "off"]

\* lines 122-127: the select of the pending ebooks
SelectPending(b) ==
    /\ process_pc[b] = "idle"
    /\ process_pc' = [process_pc EXCEPT ![b] =
                        IF ebook_status = "pending_evaluation" THEN "picked"
                        ELSE "returned_empty"]
    /\ UNCHANGED <<provider_names, persona_ids, ebook_status, evaluation, ev, pc,
                   results, agg_calls, completion, fixed, evaluation_rows>>

\* lines 132-136: the status is set and committed, run_evaluation is called
MarkEvaluating(b) ==
    /\ process_pc[b] = "picked"
    /\ ebook_status' = "evaluating"
    /\ process_pc' = [process_pc EXCEPT ![b] = "running"]
    /\ pc' = [pc EXCEPT ![b] = "idle"]
    /\ UNCHANGED <<provider_names, persona_ids, evaluation, ev,
                   results, agg_calls, completion, fixed, evaluation_rows>>

\* lines 136-139: run_evaluation has returned its dict, the call returns
ReturnResults(b) ==
    /\ process_pc[b] = "running"
    /\ pc[b] \in {"returned", "raised", "not_found", "not_pending", "flush_raised"}
    /\ process_pc' = [process_pc EXCEPT ![b] = "returned"]
    /\ UNCHANGED <<provider_names, persona_ids, ebook_status, evaluation, ev, pc,
                   results, agg_calls, completion, fixed, evaluation_rows>>

NextPending ==
    \/ \E b \in Workers : SelectPending(b)
    \/ \E b \in Workers : MarkEvaluating(b)
    \/ \E r \in Runs : LoadEbook(r, "ebook")
    \/ \E r \in Runs : Proceed(r)
    \/ \E b \in Workers : ReturnResults(b)

SpecPending == InitPending /\ [][NextPending]_vars

\* C30: while a call of process_pending_evaluations holds the ebook it
\* picked, the ebook status only goes pending_evaluation -> evaluating ->
\* published or rejected, and when the call returns the ebook is published or
\* rejected.
C30_PickedEbooksEndTerminal ==
    /\ [][\A b \in Workers :
            (process_pc[b] = "running" /\ process_pc'[b] = "returned")
            => ebook_status' \in {"published", "rejected"}]_vars
    /\ [][(\E b \in Workers : process_pc[b] \in {"picked", "running"})
          => \/ ebook_status' = ebook_status
             \/ <<ebook_status, ebook_status'>> \in
                   {<<"pending_evaluation", "evaluating">>,
                    <<"evaluating", "published">>, <<"evaluating", "rejected">>}]_vars

====
